---- MODULE Spec2Model ----
(***************************************************************************)
(* Model of the zotero-arxiv-daily pipeline: src/main.py (__main__ and its *)
(* helpers), src/recommender.py (rank_papers), src/paper.py (ArxivPaper)   *)
(* and src/construct_email.py (render_email, send_email).                  *)
(*                                                                         *)
(* ArxivPaper objects are identified by the integers 1..n; the list        *)
(* `papers` of main.py is a sequence of such identities and the field      *)
(* ArxivPaper.score lives in the heap function `score`.  The sentence      *)
(* encoder, the scaler and the one-class SVM are external: their result,   *)
(* the vector `scores` of rank_papers, is an arbitrary vector over Scores  *)
(* that is a function of the reference corpus it was fitted on (`fitted`). *)
(***************************************************************************)
EXTENDS Integers, Sequences, FiniteSets, TLC

\* ---------------------------------------------------------------- bounds
MaxCorpus == 2
MaxPapers == 2
MaxTags == 2
MaxFeed == 104
MaxPeriod == 3

\* Ids per arxiv.Search (main.py:70-71) and papers of the debug mode (main.py:83).
BatchSize == 50
DebugPapers == 5

Tags == {"A", "B"}
Scores == {0, 1}
MinScores == {0, 1}

\* The key None of the dictionaries all_papers / debug_info.
NoneKey == "<None>"
\* ArxivPaper.score: <<>> is None, <<v>> is the number v.
NoScore == <<>>

VARIABLES
    pc,              \* position of __main__
    err,             \* the exception that escaped __main__, "" if none
    zotero_tags,     \* args.zotero_tags: NoneKey or the list of tags it splits into
    min_score,       \* args.min_score
    send_empty,      \* args.send_empty
    corpus,          \* main.py `corpus`
    papers,          \* main.py `papers`
    n_papers_init,   \* main.py `n_papers_init`
    score,           \* heap: ArxivPaper.score of every object
    ti,              \* index of the next tag of the loop `for tag in tags`
    tag_papers,      \* main.py `tag_papers`
    tag_debug_info,  \* main.py `tag_debug_info`
    all_papers,      \* main.py `all_papers`
    debug_info,      \* main.py `debug_info` (the per-partition mapping)
    use_sections,    \* main.py `use_sections`
    html,            \* what render_email returned
    emails,          \* number of calls of send_email
    warnings,        \* tags skipped with logger.warning
    fitted,          \* decision_function outputs, per reference corpus fitted
    writes,          \* history: number of assignments to each object's score
    last_call,       \* history: the latest completed call of rank_papers
    debug,           \* args.debug
    feed,            \* get_arxiv_paper: feed.entries
    all_paper_ids,   \* get_arxiv_paper: all_paper_ids
    bi,              \* get_arxiv_paper: i of `for i in range(0, len(all_paper_ids), 50)`
    searches         \* history: the id_list of every arxiv.Search issued, in order

vars == <<pc, err, zotero_tags, min_score, send_empty, corpus, papers,
          n_papers_init, score, ti, tag_papers, tag_debug_info, all_papers,
          debug_info, use_sections, html, emails, warnings, fitted, writes,
          last_call, debug, feed, all_paper_ids, bi, searches>>

\* The state of get_arxiv_paper.
arxiv_vars == <<debug, feed, all_paper_ids, bi, searches>>

\* ------------------------------------------------------------ dictionaries
EmptyDict == [x \in {} |-> 0]

Put(d, k, v) == [x \in (DOMAIN d) \cup {k} |-> IF x = k THEN v ELSE d[x]]

\* ------------------------------------------------------------- sequences
SeqsUpTo(S, n) == UNION {[1..k -> S] : k \in 0..n}

RECURSIVE MaxOf(_)
MaxOf(s) ==
    IF Len(s) = 1 THEN s[1]
    ELSE LET m == MaxOf(Tail(s)) IN IF m > s[1] THEN m ELSE s[1]

RECURSIVE MinOf(_)
MinOf(s) ==
    IF Len(s) = 1 THEN s[1]
    ELSE LET m == MinOf(Tail(s)) IN IF m < s[1] THEN m ELSE s[1]

\* ------------------------------------------------------------ main.py: corpus
\* An item of the Zotero library as zot.items() returns it: its tags and whether
\* its abstractNote is the empty string.
RawItems == [tags : SUBSET Tags, abstractNote : {"", "text"}]

\* The libraries zot.items() can return.
RawCorpora == SeqsUpTo(RawItems, MaxCorpus)

\* get_zotero_corpus: the items whose abstractNote is not empty.
get_zotero_corpus(raw) == SelectSeq(raw, LAMBDA c : c.abstractNote # "")

\* filter_corpus: the items none of whose collection paths the gitignore
\* matcher matches; `matched` holds the positions of the items it matches.
filter_corpus(c, matched) ==
    LET kept == {i \in 1..Len(c) : i \notin matched}
        nth(k) == CHOOSE i \in kept : Cardinality({j \in kept : j <= i}) = k
    IN [k \in 1..Cardinality(kept) |-> c[nth(k)]]

\* filter_corpus_by_tag
filter_corpus_by_tag(c, tag) == SelectSeq(c, LAMBDA x : tag \in x.tags)

\* ------------------------------------------------------- recommender.py
\* sorted(matching_papers, key=lambda x: x.score, reverse=True): a stable
\* sort, so an element goes behind every element whose key is >= its own.
\* Mutant, an ascending sort reversed: equal keys end up in reverse order.
InsertDescUnstable(sorted, c, heap) ==
    LET k == heap[c][1]
        n == Cardinality({i \in 1..Len(sorted) : heap[sorted[i]][1] > k})
    IN SubSeq(sorted, 1, n) \o <<c>> \o SubSeq(sorted, n + 1, Len(sorted))

InsertDesc(sorted, c, heap) ==
    LET k == heap[c][1]
        n == Cardinality({i \in 1..Len(sorted) : heap[sorted[i]][1] >= k})
    IN SubSeq(sorted, 1, n) \o <<c>> \o SubSeq(sorted, n + 1, Len(sorted))

RECURSIVE SortedDesc(_, _)
SortedDesc(s, heap) ==
    IF s = <<>> THEN <<>>
    ELSE InsertDesc(SortedDesc(SubSeq(s, 1, Len(s) - 1), heap), s[Len(s)], heap)

\* The encoder and the scaler reject an empty list of texts, and max() an
\* empty sequence: rank_papers raises when either list is empty.
RankRaises(candidates, ref) == Len(ref) = 0 \/ Len(candidates) = 0

\* debug_info of rank_papers (lines 28-31).
DebugInfo(scores) == [max_score |-> MaxOf(scores), min_score |-> MinOf(scores)]

\* for score, candidate in zip(scores, candidates): candidate.score = score
AssignScores(candidates, scores, heap) ==
    [o \in DOMAIN heap |->
        IF \E i \in 1..Len(candidates) : candidates[i] = o
        THEN <<scores[CHOOSE i \in 1..Len(candidates) :
                        /\ candidates[i] = o
                        /\ \A j \in 1..Len(candidates) : candidates[j] = o => j <= i]>>
        ELSE heap[o]]

\* Mutant: a strict comparison with the threshold.
MatchingStrict(candidates, heap, ms) == SelectSeq(candidates, LAMBDA c : heap[c][1] > ms)

\* [c for c in candidates if c.score >= min_score]
Matching(candidates, heap, ms) == SelectSeq(candidates, LAMBDA c : heap[c][1] >= ms)

\* Mutant: the statistics are taken over the papers that pass the threshold.
rank_papers_stats_after_filter(candidates, scores, heap, ms) ==
    LET h == AssignScores(candidates, scores, heap)
        m == Matching(candidates, h, ms)
    IN [matching |-> SortedDesc(m, h),
        debug_info |-> IF m = <<>> THEN DebugInfo(scores)
                       ELSE DebugInfo([i \in 1..Len(m) |-> h[m[i]][1]]),
        heap |-> h]

\* rank_papers, for the vector `scores` the decision function returned.
rank_papers(candidates, scores, heap, ms) ==
    LET h == AssignScores(candidates, scores, heap)
    IN [matching |-> SortedDesc(Matching(candidates, h, ms), h),
        debug_info |-> DebugInfo(scores),
        heap |-> h]

\* ---------------------------------------------------- construct_email.py
\* total_papers == 0
NoPapers(papers_by_tag) == \A k \in DOMAIN papers_by_tag : Len(papers_by_tag[k]) = 0

\* render_email: the kind of page it returns, or the exception it raises.
\* papers_by_tag[None] and debug_info[None] raise KeyError when None is no key;
\* get_toc_html reads section_debug["min_score"] of every section and calls
\* section_name.lower(); get_block_html formats p.score as a float.
render_email(papers_by_tag, dinfo, sections, heap) ==
    IF NoPapers(papers_by_tag)
    THEN IF DOMAIN dinfo # {}
         THEN IF NoneKey \in DOMAIN papers_by_tag /\ NoneKey \in DOMAIN dinfo
              THEN "stats+empty" ELSE "KeyError"
         ELSE "empty"
    ELSE IF sections
         THEN IF \E k \in DOMAIN papers_by_tag : k \notin DOMAIN dinfo THEN "KeyError"
              ELSE IF NoneKey \in DOMAIN papers_by_tag THEN "AttributeError"
              ELSE IF \E k \in DOMAIN papers_by_tag : \E i \in 1..Len(papers_by_tag[k]) :
                          heap[papers_by_tag[k][i]] = NoScore
                   THEN "TypeError" ELSE "toc+sections"
         ELSE IF NoneKey \in DOMAIN papers_by_tag /\ NoneKey \in DOMAIN dinfo
              THEN IF \E k \in DOMAIN papers_by_tag : \E i \in 1..Len(papers_by_tag[k]) :
                          heap[papers_by_tag[k][i]] = NoScore
                   THEN "TypeError" ELSE "stats+papers"
              ELSE "KeyError"

RenderErrors == {"KeyError", "AttributeError", "TypeError"}

\* ------------------------------------------------------------- main.py
\* tags = [tag.strip() for tag in args.zotero_tags.split(",")]; the empty
\* sequence stands for an absent (None or "") zotero_tags.
TagLists == SeqsUpTo(Tags, MaxTags)

NoCall == <<>>

Init ==
    /\ pc = "corpus"
    /\ err = ""
    /\ zotero_tags \in TagLists
    /\ min_score \in MinScores
    /\ send_empty \in BOOLEAN
    /\ corpus = <<>>
    /\ papers = <<>>
    /\ n_papers_init = 0
    /\ score = EmptyDict
    /\ ti = 0
    /\ tag_papers = EmptyDict
    /\ tag_debug_info = EmptyDict
    /\ all_papers = EmptyDict
    /\ debug_info = EmptyDict
    /\ use_sections = FALSE
    /\ html = ""
    /\ emails = 0
    /\ warnings = {}
    /\ fitted = EmptyDict
    /\ writes = EmptyDict
    /\ last_call = NoCall
    /\ debug = FALSE
    /\ feed = <<>>
    /\ all_paper_ids = <<>>
    /\ bi = 0
    /\ searches = <<>>

\* Lines 189-195: fetch the library, drop what zotero_ignore matches.
GetZoteroCorpus ==
    /\ pc = "corpus"
    /\ \E raw \in RawCorpora, zotero_ignore \in BOOLEAN :
         \E matched \in SUBSET (1..Len(raw)) :
            /\ zotero_ignore \/ matched = {}
            /\ corpus' = IF zotero_ignore
                         THEN filter_corpus(get_zotero_corpus(raw), matched)
                         ELSE get_zotero_corpus(raw)
    /\ pc' = "arxiv"
    /\ UNCHANGED arxiv_vars
    /\ UNCHANGED <<err, zotero_tags, min_score, send_empty, papers, n_papers_init,
                   score, ti, tag_papers, tag_debug_info, all_papers, debug_info,
                   use_sections, html, emails, warnings, fitted, writes, last_call>>

\* Lines 196-198: every retrieved result becomes a new ArxivPaper, score None.
GetArxivPaper ==
    /\ pc = "arxiv"
    /\ \E n \in 0..MaxPapers :
         /\ papers' = [i \in 1..n |-> i]
         /\ n_papers_init' = n
         /\ score' = [o \in 1..n |-> NoScore]
         /\ writes' = [o \in 1..n |-> 0]
    /\ pc' = "branch"
    /\ UNCHANGED arxiv_vars
    /\ UNCHANGED <<err, zotero_tags, min_score, send_empty, corpus, ti, tag_papers,
                   tag_debug_info, all_papers, debug_info, use_sections, html,
                   emails, warnings, fitted, last_call>>

\* Line 64-65: the feed reports an invalid query.
GetArxivPaperRaises ==
    /\ pc = "arxiv"
    /\ pc' = "error"
    /\ err' = "Invalid ARXIV_QUERY"
    /\ UNCHANGED arxiv_vars
    /\ UNCHANGED <<zotero_tags, min_score, send_empty, corpus, papers, n_papers_init,
                   score, ti, tag_papers, tag_debug_info, all_papers, debug_info,
                   use_sections, html, emails, warnings, fitted, writes, last_call>>

\* The vectors decision_function can return for `candidates` after a fit on
\* `ref`: any vector, but the same one for the same reference corpus.
Decisions(ref, candidates) ==
    IF ref \in DOMAIN fitted THEN {fitted[ref]}
    ELSE [1..Len(candidates) -> Scores]

\* The exception rank_papers raises on an empty list.
RankError(candidates, ref) ==
    IF Len(ref) = 0 THEN "ValueError: empty corpus" ELSE "ValueError: no candidates"

\* Mutant: the matching papers are found and sorted in the caller's list.
rank_papers_frame_in_place(candidates, ref, heap, ms) ==
    [candidates |-> SortedDesc(Matching(candidates, heap, ms), heap), corpus |-> ref]

\* What the two argument lists of rank_papers hold when it returns: lines
\* 17-18 and 35-36 build new lists and nothing is added to, removed from or
\* reordered in `candidates` or `corpus`; `heap` is the heap at the return.
rank_papers_frame(candidates, ref, heap, ms) == [candidates |-> candidates, corpus |-> ref]

CallRecord(key, candidates, ref, scores, r) ==
    <<[key |-> key, candidates |-> candidates, corpus |-> ref, min_score |-> min_score,
       scores |-> scores, matching |-> r.matching, debug_info |-> r.debug_info,
       after |-> rank_papers_frame(candidates, ref, r.heap, min_score)]>>

CountWrites(w, candidates) ==
    [o \in DOMAIN w |-> w[o] + Cardinality({i \in 1..Len(candidates) : candidates[i] = o})]

\* Lines 200-205.
BeginTags ==
    /\ pc = "branch"
    /\ zotero_tags # <<>>
    /\ ti' = 1
    /\ tag_papers' = EmptyDict
    /\ tag_debug_info' = EmptyDict
    /\ pc' = "tagloop"
    /\ UNCHANGED arxiv_vars
    /\ UNCHANGED <<err, zotero_tags, min_score, send_empty, corpus, papers,
                   n_papers_init, score, all_papers, debug_info, use_sections, html,
                   emails, warnings, fitted, writes, last_call>>

\* Mutant: a tag whose ranked list is empty gets no entry.
TagBodyDropsEmpty(st, tag, scores) ==
    LET r == rank_papers(papers, scores, st.score, min_score)
    IN [tag_papers |-> IF r.matching = <<>> THEN st.tag_papers
                       ELSE Put(st.tag_papers, tag, r.matching),
        tag_debug_info |-> Put(st.tag_debug_info, tag, r.debug_info),
        score |-> r.heap]

\* Lines 214-217: rank papers.copy() (the same objects) against the tag's
\* corpus and store the result under the tag.
TagBody(st, tag, scores) ==
    LET r == rank_papers(papers, scores, st.score, min_score)
    IN [tag_papers |-> Put(st.tag_papers, tag, r.matching),
        tag_debug_info |-> Put(st.tag_debug_info, tag, r.debug_info),
        score |-> r.heap]

\* Lines 206-211: a tag without reference items is skipped with a warning.
TagSkip ==
    /\ pc = "tagloop" /\ ti <= Len(zotero_tags)
    /\ filter_corpus_by_tag(corpus, zotero_tags[ti]) = <<>>
    /\ warnings' = warnings \cup {zotero_tags[ti]}
    /\ ti' = ti + 1
    /\ UNCHANGED arxiv_vars
    /\ UNCHANGED <<pc, err, zotero_tags, min_score, send_empty, corpus, papers,
                   n_papers_init, score, tag_papers, tag_debug_info, all_papers,
                   debug_info, use_sections, html, emails, fitted, writes, last_call>>

\* Lines 206-221: one iteration that ranks.
TagRank ==
    /\ pc = "tagloop" /\ ti <= Len(zotero_tags)
    /\ LET tag == zotero_tags[ti]
           tag_corpus == filter_corpus_by_tag(corpus, tag)
       IN /\ tag_corpus # <<>>
          /\ ~RankRaises(papers, tag_corpus)
          /\ \E scores \in Decisions(tag_corpus, papers) :
               LET st == TagBody([tag_papers |-> tag_papers,
                                  tag_debug_info |-> tag_debug_info,
                                  score |-> score], tag, scores)
               IN /\ tag_papers' = st.tag_papers
                  /\ tag_debug_info' = st.tag_debug_info
                  /\ score' = st.score
                  /\ fitted' = Put(fitted, tag_corpus, scores)
                  /\ writes' = CountWrites(writes, papers)
                  /\ last_call' = CallRecord(tag, papers, tag_corpus, scores,
                                             rank_papers(papers, scores, score, min_score))
    /\ ti' = ti + 1
    /\ UNCHANGED arxiv_vars
    /\ UNCHANGED <<pc, err, zotero_tags, min_score, send_empty, corpus, papers,
                   n_papers_init, all_papers, debug_info, use_sections, html, emails,
                   warnings>>

\* Line 214 when rank_papers raises.
TagRankRaises ==
    /\ pc = "tagloop" /\ ti <= Len(zotero_tags)
    /\ LET tag_corpus == filter_corpus_by_tag(corpus, zotero_tags[ti])
       IN /\ tag_corpus # <<>>
          /\ RankRaises(papers, tag_corpus)
          /\ err' = RankError(papers, tag_corpus)
    /\ pc' = "error"
    /\ UNCHANGED arxiv_vars
    /\ UNCHANGED <<zotero_tags, min_score, send_empty, corpus, papers, n_papers_init,
                   score, ti, tag_papers, tag_debug_info, all_papers, debug_info,
                   use_sections, html, emails, warnings, fitted, writes, last_call>>

\* any(tag_papers.values())
AnyPapers(d) == \E k \in DOMAIN d : Len(d[k]) > 0

\* Lines 223-227.
TagsExit ==
    /\ pc = "tagloop" /\ ti > Len(zotero_tags)
    /\ ~AnyPapers(tag_papers) /\ ~send_empty
    /\ pc' = "exit0"
    /\ UNCHANGED arxiv_vars
    /\ UNCHANGED <<err, zotero_tags, min_score, send_empty, corpus, papers,
                   n_papers_init, score, ti, tag_papers, tag_debug_info, all_papers,
                   debug_info, use_sections, html, emails, warnings, fitted, writes,
                   last_call>>

\* Lines 223-231.
TagsDone ==
    /\ pc = "tagloop" /\ ti > Len(zotero_tags)
    /\ ~(~AnyPapers(tag_papers) /\ ~send_empty)
    /\ all_papers' = tag_papers
    /\ debug_info' = tag_debug_info
    /\ use_sections' = TRUE
    /\ pc' = "render"
    /\ UNCHANGED arxiv_vars
    /\ UNCHANGED <<err, zotero_tags, min_score, send_empty, corpus, papers,
                   n_papers_init, score, ti, tag_papers, tag_debug_info, html, emails,
                   warnings, fitted, writes, last_call>>

\* Line 234 when rank_papers raises.
RankFullRaises ==
    /\ pc = "branch"
    /\ zotero_tags = <<>>
    /\ RankRaises(papers, corpus)
    /\ err' = RankError(papers, corpus)
    /\ pc' = "error"
    /\ UNCHANGED arxiv_vars
    /\ UNCHANGED <<zotero_tags, min_score, send_empty, corpus, papers, n_papers_init,
                   score, ti, tag_papers, tag_debug_info, all_papers, debug_info,
                   use_sections, html, emails, warnings, fitted, writes, last_call>>

\* Mutant: the unpartitioned branch announces sections.
FullOutputSections(r) ==
    [all_papers |-> Put(EmptyDict, NoneKey, r.matching),
     debug_info |-> Put(EmptyDict, NoneKey, r.debug_info),
     use_sections |-> TRUE]

\* Lines 238-240.
FullOutput(r) ==
    [all_papers |-> Put(EmptyDict, NoneKey, r.matching),
     debug_info |-> Put(EmptyDict, NoneKey, r.debug_info),
     use_sections |-> FALSE]

\* Lines 232-240: rank against the whole corpus, then exit or go on.
RankFull ==
    /\ pc = "branch"
    /\ zotero_tags = <<>>
    /\ ~RankRaises(papers, corpus)
    /\ \E scores \in Decisions(corpus, papers) :
         LET r == rank_papers(papers, scores, score, min_score)
         IN /\ papers' = r.matching
            /\ score' = r.heap
            /\ fitted' = Put(fitted, corpus, scores)
            /\ writes' = CountWrites(writes, papers)
            /\ last_call' = CallRecord(NoneKey, papers, corpus, scores, r)
            /\ corpus' = rank_papers_frame(papers, corpus, r.heap, min_score).corpus
            /\ IF Len(r.matching) = 0 /\ ~send_empty
               THEN /\ pc' = "exit0"
                    /\ UNCHANGED <<all_papers, debug_info, use_sections>>
               ELSE /\ all_papers' = FullOutput(r).all_papers
                    /\ debug_info' = FullOutput(r).debug_info
                    /\ use_sections' = FullOutput(r).use_sections
                    /\ pc' = "render"
    /\ UNCHANGED arxiv_vars
    /\ UNCHANGED <<err, zotero_tags, min_score, send_empty, n_papers_init, ti,
                   tag_papers, tag_debug_info, html, emails, warnings>>

\* Mutant: the failed call is caught and the ranking is tried again.
EmbeddingFailureRetried(at) == [pc |-> at, err |-> "EmbeddingFailure"]

\* encoder.encode raises (recommender.py:16-18); neither rank_papers nor
\* __main__ catches it, so it ends the run from position `at`.
EmbeddingFailure(at) == [pc |-> "error", err |-> "EmbeddingFailure"]

\* Line 214 when the encoder raises in rank_papers, before any score is set.
TagRankEmbeddingFails ==
    /\ pc = "tagloop" /\ ti <= Len(zotero_tags)
    /\ filter_corpus_by_tag(corpus, zotero_tags[ti]) # <<>>
    /\ pc' = EmbeddingFailure(pc).pc
    /\ err' = EmbeddingFailure(pc).err
    /\ UNCHANGED arxiv_vars
    /\ UNCHANGED <<zotero_tags, min_score, send_empty, corpus, papers, n_papers_init,
                   score, ti, tag_papers, tag_debug_info, all_papers, debug_info,
                   use_sections, html, emails, warnings, fitted, writes, last_call>>

\* Line 234 when the encoder raises in rank_papers, before any score is set.
RankFullEmbeddingFails ==
    /\ pc = "branch"
    /\ zotero_tags = <<>>
    /\ pc' = EmbeddingFailure(pc).pc
    /\ err' = EmbeddingFailure(pc).err
    /\ UNCHANGED arxiv_vars
    /\ UNCHANGED <<zotero_tags, min_score, send_empty, corpus, papers, n_papers_init,
                   score, ti, tag_papers, tag_debug_info, all_papers, debug_info,
                   use_sections, html, emails, warnings, fitted, writes, last_call>>

\* Lines 242-260: render_email returns the page.
Render ==
    /\ pc = "render"
    /\ render_email(all_papers, debug_info, use_sections, score) \notin RenderErrors
    /\ html' = render_email(all_papers, debug_info, use_sections, score)
    /\ pc' = "send"
    /\ UNCHANGED arxiv_vars
    /\ UNCHANGED <<err, zotero_tags, min_score, send_empty, corpus, papers,
                   n_papers_init, score, ti, tag_papers, tag_debug_info, all_papers,
                   debug_info, use_sections, emails, warnings, fitted, writes,
                   last_call>>

\* Line 260: render_email raises.
RenderRaises ==
    /\ pc = "render"
    /\ render_email(all_papers, debug_info, use_sections, score) \in RenderErrors
    /\ err' = render_email(all_papers, debug_info, use_sections, score)
    /\ pc' = "error"
    /\ UNCHANGED arxiv_vars
    /\ UNCHANGED <<zotero_tags, min_score, send_empty, corpus, papers, n_papers_init,
                   score, ti, tag_papers, tag_debug_info, all_papers, debug_info,
                   use_sections, html, emails, warnings, fitted, writes, last_call>>

\* Lines 261-272.
SendEmail ==
    /\ pc = "send"
    /\ emails' = emails + 1
    /\ pc' = "sent"
    /\ UNCHANGED arxiv_vars
    /\ UNCHANGED <<err, zotero_tags, min_score, send_empty, corpus, papers,
                   n_papers_init, score, ti, tag_papers, tag_debug_info, all_papers,
                   debug_info, use_sections, html, warnings, fitted, writes, last_call>>

Next ==
    \/ GetZoteroCorpus
    \/ GetArxivPaper
    \/ GetArxivPaperRaises
    \/ BeginTags
    \/ TagSkip
    \/ TagRank
    \/ TagRankRaises
    \/ TagsExit
    \/ TagsDone
    \/ RankFullRaises
    \/ RankFull
    \/ TagRankEmbeddingFails
    \/ RankFullEmbeddingFails
    \/ Render
    \/ RenderRaises
    \/ SendEmail

Spec == Init /\ [][Next]_vars

\* ======================================================== properties
Range(s) == {s[i] : i \in 1..Len(s)}

\* Position of object o in the list c of distinct objects.
Pos(c, o) == CHOOSE i \in 1..Len(c) : c[i] = o

\* The run has handed (or is handing) its output to render_email.
Rendering == pc \in {"render", "send", "sent"} \/ (pc = "error" /\ err \in RenderErrors)

\* The tags of the list whose reference subset is not empty.
RankedTags == {t \in Range(zotero_tags) : filter_corpus_by_tag(corpus, t) # <<>>}

\* C1: a call of rank_papers returns exactly the candidates whose score
\* computed in that call is >= min_score, each of them once.
C1_RankFiltersByThreshold ==
    last_call # NoCall =>
        LET c == last_call[1]
        IN /\ \A j \in 1..Len(c.matching) :
                \E i \in 1..Len(c.candidates) :
                    c.candidates[i] = c.matching[j] /\ c.scores[i] >= c.min_score
           /\ \A i \in 1..Len(c.candidates) :
                c.scores[i] >= c.min_score =>
                    Cardinality({j \in 1..Len(c.matching) :
                                    c.matching[j] = c.candidates[i]}) = 1

\* A call that kept one candidate whose score equals the threshold and dropped another.
C1_Witness ==
    /\ last_call # NoCall
    /\ \E i, j \in 1..Len(last_call[1].candidates) :
          /\ last_call[1].scores[i] = last_call[1].min_score
          /\ last_call[1].scores[j] < last_call[1].min_score
          /\ \E k \in 1..Len(last_call[1].matching) :
                last_call[1].matching[k] = last_call[1].candidates[i]

\* C2: the list rank_papers returns is ordered by non-increasing score, and
\* returned candidates of equal score keep their order of the input list.
C2_RankSortedStable ==
    last_call # NoCall =>
        LET c == last_call[1]
            sc(o) == c.scores[Pos(c.candidates, o)]
        IN \A a, b \in 1..Len(c.matching) :
              a < b =>
                 /\ sc(c.matching[a]) >= sc(c.matching[b])
                 /\ sc(c.matching[a]) = sc(c.matching[b]) =>
                       Pos(c.candidates, c.matching[a]) < Pos(c.candidates, c.matching[b])

\* A call that returned two candidates of equal score.
C2_Witness ==
    /\ last_call # NoCall
    /\ \E a, b \in 1..Len(last_call[1].matching) :
          /\ a < b
          /\ last_call[1].scores[Pos(last_call[1].candidates, last_call[1].matching[a])]
               = last_call[1].scores[Pos(last_call[1].candidates, last_call[1].matching[b])]

\* C3: when two or more tags were ranked, every list handed to render_email
\* is sorted by descending score and holds only candidates whose score is
\* >= the threshold, the score being the one the object holds then.
C3_OutputSortedByHeldScore ==
    (pc = "render" /\ Cardinality(DOMAIN tag_papers) >= 2) =>
        \A k \in DOMAIN all_papers :
            /\ \A i \in 1..Len(all_papers[k]) : score[all_papers[k][i]][1] >= min_score
            /\ \A a, b \in 1..Len(all_papers[k]) :
                  a < b => score[all_papers[k][a]][1] >= score[all_papers[k][b]][1]

\* C4: once a candidate's score is a number it is never changed, and the
\* list of candidates is the same for every partition.
C4_ScoreAssignedOnce ==
    [][/\ \A o \in DOMAIN score : score[o] # NoScore => score'[o] = score[o]
       /\ pc = "tagloop" => papers' = papers]_vars

\* The tag loop (lines 206-217) as a function of the tag list, where dec[t]
\* is the vector the decision function returns for tag t's reference subset,
\* <<>> when that subset is empty.
RECURSIVE TagLoop(_, _, _)
TagLoop(tags, st, dec) ==
    IF tags = <<>> THEN st
    ELSE TagLoop(Tail(tags),
                 IF dec[Head(tags)] = <<>> THEN st
                 ELSE TagBody(st, Head(tags), dec[Head(tags)]),
                 dec)

\* The candidates of a tag's ranked list with the score each carries.
Carried(lists, heap, tag) ==
    [i \in 1..Len(lists[tag]) |-> <<lists[tag][i], heap[lists[tag][i]]>>]

\* C5: the score each candidate carries in tag A's list of the final output
\* is the same in every run with the same candidates and the same reference
\* subset for A, whatever the reference subset of another tag B and whatever
\* the order in which the tags are ranked.
C5_PartitionIndependence ==
    (pc = "render" /\ zotero_tags # <<>>) =>
        LET T == Range(zotero_tags)
            st0 == [tag_papers |-> EmptyDict, tag_debug_info |-> EmptyDict,
                    score |-> [o \in DOMAIN score |-> NoScore]]
            dec1 == [t \in T |-> IF t \in RankedTags
                                 THEN fitted[filter_corpus_by_tag(corpus, t)]
                                 ELSE <<>>]
        IN \A A \in DOMAIN all_papers : \A B \in T \ {A} :
              \A sB \in [1..Len(papers) -> Scores] :
                 \A tags2 \in {l \in TagLists : Range(l) = T} :
                    LET st2 == TagLoop(tags2, st0, [dec1 EXCEPT ![B] = sB])
                    IN Carried(st2.tag_papers, st2.score, A)
                          = Carried(all_papers, score, A)

\* C6: the recorded min_score and max_score of a call of rank_papers bound
\* the score of every candidate scored in it, filtered out or not, are each
\* the score of some candidate, and min_score <= max_score.
C6_StatsBoundRawScores ==
    last_call # NoCall =>
        LET c == last_call[1]
        IN /\ \A i \in 1..Len(c.scores) :
                c.debug_info.min_score <= c.scores[i] /\ c.scores[i] <= c.debug_info.max_score
           /\ \E i \in 1..Len(c.scores) : c.debug_info.min_score = c.scores[i]
           /\ \E i \in 1..Len(c.scores) : c.debug_info.max_score = c.scores[i]
           /\ c.debug_info.min_score <= c.debug_info.max_score

\* A call whose lowest score was filtered out.
C6_Witness ==
    /\ last_call # NoCall
    /\ last_call[1].debug_info.min_score < last_call[1].min_score
    /\ last_call[1].debug_info.max_score >= last_call[1].min_score
    /\ last_call[1].matching # <<>>

\* C7: a partition whose reference subset is empty is skipped with a
\* warning and makes no exception escape, in the tag loop and in the
\* unpartitioned branch; runs that retrieved no candidate are C8's.
C7_EmptyReferenceSkipped ==
    /\ ~(pc = "error" /\ err = "ValueError: empty corpus" /\ n_papers_init > 0)
    /\ pc \in {"tagloop", "render"} =>
          \A i \in 1..(ti - 1) :
              filter_corpus_by_tag(corpus, zotero_tags[i]) = <<>> =>
                  zotero_tags[i] \in warnings /\ zotero_tags[i] \notin DOMAIN tag_papers

\* C8: with send_empty, a run without a paper to recommend (no candidate
\* retrieved, or none at or above the threshold in any partition) neither
\* exits early nor raises; runs whose reference corpus is empty are C7's.
C8_EmptyDigestSent ==
    send_empty =>
        /\ pc # "exit0"
        /\ ~(pc = "error" /\ err = "ValueError: no candidates")
        /\ ~(pc = "error" /\ err \in RenderErrors /\ NoPapers(all_papers))

\* C9: without zotero_tags the output handed to render_email has exactly
\* one partition and one statistics record, both keyed by None, and
\* use_sections is False.
C9_SinglePartition ==
    (Rendering /\ zotero_tags = <<>>) =>
        /\ DOMAIN all_papers = {NoneKey}
        /\ DOMAIN debug_info = {NoneKey}
        /\ use_sections = FALSE
        /\ all_papers[NoneKey] = last_call[1].matching
        /\ debug_info[NoneKey] = last_call[1].debug_info

\* An unpartitioned run at the call of render_email.
C9_Witness == pc = "render" /\ zotero_tags = <<>> /\ all_papers[NoneKey] # <<>>

\* C10: with zotero_tags the output has one entry per listed tag whose
\* reference subset is not empty and none for a skipped tag, the statistics
\* have the same keys, and a tag's min/max are those of its own ranking.
C10_TagPartitions ==
    (Rendering /\ zotero_tags # <<>>) =>
        /\ DOMAIN all_papers = RankedTags
        /\ DOMAIN debug_info = RankedTags
        /\ \A t \in RankedTags :
              LET own == fitted[filter_corpus_by_tag(corpus, t)]
              IN /\ \A i \in 1..Len(own) :
                      debug_info[t].min_score <= own[i] /\ own[i] <= debug_info[t].max_score
                 /\ \E i \in 1..Len(own) : debug_info[t].min_score = own[i]
                 /\ \E i \in 1..Len(own) : debug_info[t].max_score = own[i]

\* A sectioned run at render_email with a skipped tag and a ranked tag whose list is empty.
C10_Witness ==
    /\ pc = "render" /\ zotero_tags # <<>>
    /\ \E t \in Range(zotero_tags) : t \notin RankedTags
    /\ \E t \in RankedTags : t \in DOMAIN all_papers /\ all_papers[t] = <<>>

\* C11: when the embedding provider fails the run ends with the error and
\* nothing is tried again: no email is sent, no page is rendered, nothing is
\* handed to the renderer, and every score an object holds is a score a
\* completed ranking computed.
C11_EmbeddingFailureFatal ==
    err = "EmbeddingFailure" =>
        /\ pc = "error"
        /\ ~ENABLED Next
        /\ emails = 0
        /\ html = ""
        /\ DOMAIN all_papers = {} /\ DOMAIN debug_info = {}
        /\ \A o \in DOMAIN score :
              \/ score[o] = NoScore
              \/ /\ last_call # NoCall
                 /\ score[o] = <<last_call[1].scores[Pos(last_call[1].candidates, o)]>>

\* The encoder failed for the second tag, after the first tag was ranked.
C11_Witness ==
    /\ err = "EmbeddingFailure"
    /\ ti = 2
    /\ DOMAIN tag_papers # {}

RankedNothing ==
    IF zotero_tags = <<>>
    THEN last_call # NoCall /\ last_call[1].matching = <<>>
    ELSE ti > Len(zotero_tags) /\ ~AnyPapers(tag_papers)

\* C13: without send_empty a run in which no partition has a candidate at
\* or above the threshold exits with status 0 before rendering and sends
\* nothing, a run without any candidate included; send_email is called at
\* most once, and only after every partition was ranked.
C13_QuietExit ==
    /\ ~send_empty =>
          /\ (pc \in {"exit0", "render", "send", "sent"} /\ RankedNothing) =>
                pc = "exit0" /\ emails = 0 /\ html = ""
          /\ ~(pc = "error" /\ err = "ValueError: no candidates")
    /\ emails <= 1
    /\ emails = 1 =>
          /\ pc = "sent"
          /\ zotero_tags # <<>> => ti > Len(zotero_tags)
          /\ zotero_tags = <<>> => last_call # NoCall

\* ------------------------------------------------ main.py: get_arxiv_paper
\* The feeds considered: n entries with the ids 1..n, entry i announced as
\* something else than "new" when k > 0 and i % k = r.
FeedOf(n, k, r) ==
    [i \in 1..n |->
        [id |-> <<"oai:arXiv.org:", i>>,
         arxiv_announce_type |-> IF k > 0 /\ i % k = r
                                 THEN (IF i % 2 = 0 THEN "cross" ELSE "replace")
                                 ELSE "new"]]

\* The periods k: none (0), short ones, and one longer than a search.
Periods == (0..MaxPeriod) \cup {BatchSize + 1}

Feeds == {FeedOf(n, k, r) : n \in 0..MaxFeed, k \in Periods, r \in 0..MaxPeriod}

\* i.id.removeprefix("oai:arXiv.org:")
removeprefix(id) == IF id # <<>> /\ id[1] = "oai:arXiv.org:" THEN Tail(id) ELSE id

\* Line 68.
NewPaperIds(f) ==
    LET new == SelectSeq(f, LAMBDA e : e.arxiv_announce_type = "new")
    IN [j \in 1..Len(new) |-> removeprefix(new[j].id)]

\* Mutant: the slice stops one id early.
BatchSliceShort(ids, i) ==
    SubSeq(ids, i + 1, IF i + BatchSize - 1 < Len(ids) THEN i + BatchSize - 1 ELSE Len(ids))

\* all_paper_ids[i : i + 50]
BatchSlice(ids, i) ==
    SubSeq(ids, i + 1, IF i + BatchSize < Len(ids) THEN i + BatchSize ELSE Len(ids))

\* The numbers of results client.results may yield for k requested ids.
ResultCounts(k) == {k} \cup {j \in {k - 1} : j >= 0}

\* ArxivPaper(p) for m more results: new objects, score None.
ExtendPapers(m) ==
    /\ papers' = [o \in 1..(Len(papers) + m) |-> o]
    /\ score' = [o \in 1..(Len(papers) + m) |-> NoScore]
    /\ writes' = [o \in 1..(Len(papers) + m) |-> 0]

\* Lines 62-69, not debug: parse the feed and keep the ids announced as new.
ArxivFeed ==
    /\ pc = "arxiv"
    /\ ~debug
    /\ \E f \in Feeds :
         /\ feed' = f
         /\ all_paper_ids' = NewPaperIds(f)
    /\ bi' = 0
    /\ searches' = <<>>
    /\ pc' = "arxiv_loop"
    /\ UNCHANGED <<err, zotero_tags, min_score, send_empty, corpus, papers,
                   n_papers_init, score, ti, tag_papers, tag_debug_info, all_papers,
                   debug_info, use_sections, html, emails, warnings, fitted, writes,
                   last_call, debug>>

\* Lines 70-74: one search for the next ids, its results appended.
ArxivBatch ==
    /\ pc = "arxiv_loop"
    /\ bi < Len(all_paper_ids)
    /\ searches' = Append(searches, BatchSlice(all_paper_ids, bi))
    /\ \E m \in ResultCounts(Len(BatchSlice(all_paper_ids, bi))) : ExtendPapers(m)
    /\ bi' = bi + BatchSize
    /\ UNCHANGED <<pc, err, zotero_tags, min_score, send_empty, corpus, n_papers_init,
                   ti, tag_papers, tag_debug_info, all_papers, debug_info, use_sections,
                   html, emails, warnings, fitted, last_call, debug, feed,
                   all_paper_ids>>

\* Lines 75, 86 and 197-198: the loop is over, the papers are returned.
ArxivReturn ==
    /\ pc = "arxiv_loop"
    /\ bi >= Len(all_paper_ids)
    /\ n_papers_init' = Len(papers)
    /\ pc' = "branch"
    /\ UNCHANGED arxiv_vars
    /\ UNCHANGED <<err, zotero_tags, min_score, send_empty, corpus, papers, score, ti,
                   tag_papers, tag_debug_info, all_papers, debug_info, use_sections,
                   html, emails, warnings, fitted, writes, last_call>>

\* Lines 77-86 and 197-198, debug: the first results of a fixed query, five at most.
ArxivDebug ==
    /\ pc = "arxiv"
    /\ debug
    /\ \E available \in 0..(DebugPapers + 1) :
         LET m == IF available < DebugPapers THEN available ELSE DebugPapers
         IN ExtendPapers(m) /\ n_papers_init' = m
    /\ pc' = "branch"
    /\ UNCHANGED arxiv_vars
    /\ UNCHANGED <<err, zotero_tags, min_score, send_empty, corpus, ti, tag_papers,
                   tag_debug_info, all_papers, debug_info, use_sections, html,
                   emails, warnings, fitted, last_call>>

\* get_arxiv_paper on its own: the call of line 197, for any feed.
InitArxiv ==
    /\ pc = "arxiv"
    /\ err = ""
    /\ zotero_tags = <<>>
    /\ min_score = 0
    /\ send_empty = FALSE
    /\ corpus = <<>>
    /\ papers = <<>>
    /\ n_papers_init = 0
    /\ score = EmptyDict
    /\ ti = 0
    /\ tag_papers = EmptyDict
    /\ tag_debug_info = EmptyDict
    /\ all_papers = EmptyDict
    /\ debug_info = EmptyDict
    /\ use_sections = FALSE
    /\ html = ""
    /\ emails = 0
    /\ warnings = {}
    /\ fitted = EmptyDict
    /\ writes = EmptyDict
    /\ last_call = NoCall
    /\ debug \in BOOLEAN
    /\ feed = <<>>
    /\ all_paper_ids = <<>>
    /\ bi = 0
    /\ searches = <<>>

NextArxiv ==
    \/ GetArxivPaperRaises
    \/ ArxivFeed
    \/ ArxivBatch
    \/ ArxivReturn
    \/ ArxivDebug

SpecArxiv == InitArxiv /\ [][NextArxiv]_vars

\* All the ids requested, in the order of the requests.
RECURSIVE Flatten(_)
Flatten(ss) == IF ss = <<>> THEN <<>> ELSE Head(ss) \o Flatten(Tail(ss))

\* The loop of get_arxiv_paper is over.
LoopOver == ~debug /\ pc \in {"arxiv_loop", "branch"} /\ bi >= Len(all_paper_ids)

\* C14: not in debug mode, when the loop of get_arxiv_paper is over every
\* feed entry announced as "new" was requested and no other entry ever was,
\* the ids were requested in feed order (so none twice), every search holds
\* at most 50 ids and every search but the last exactly 50.
C14_BatchesCoverNewEntries ==
    ~debug =>
        LET flat == Flatten(searches)
            requested == {flat[j][1] : j \in 1..Len(flat)}
        IN /\ \A b \in 1..Len(searches) :
                 /\ Len(searches[b]) <= 50
                 /\ b < Len(searches) => Len(searches[b]) = 50
           /\ \A i \in 1..Len(feed) :
                 feed[i].arxiv_announce_type # "new" => feed[i].id[2] \notin requested
           /\ LoopOver =>
                 LET at == [j \in 1..Len(flat) |->
                               CHOOSE i \in 1..Len(feed) : <<feed[i].id[2]>> = flat[j]]
                 IN /\ \A i \in 1..Len(feed) :
                         feed[i].arxiv_announce_type = "new" => feed[i].id[2] \in requested
                    /\ \A j \in 1..Len(flat) : \E i \in 1..Len(feed) : <<feed[i].id[2]>> = flat[j]
                    /\ \A j \in 1..(Len(flat) - 1) : at[j] < at[j + 1]

\* The loop is over after three searches, the last one short, on a feed
\* that also holds entries not announced as new.
C14_Witness ==
    /\ LoopOver
    /\ Len(searches) = 3
    /\ Len(searches[3]) < 50
    /\ \E i \in 1..Len(feed) : feed[i].arxiv_announce_type # "new"

====
